---- MODULE Spec2Model ----
(***************************************************************************)
(* FluxDM engine: the chunked (multi-connection) downloader of             *)
(* crates/engine/src/chunked.rs.                                           *)
(*                                                                         *)
(* u64 values are kept as the representative of their residue modulo 2^64  *)
(* that lies nearest to zero: a small value n is n, and 2^64 - n is -n     *)
(* (so u64::MAX is -1).  Wrapping addition and subtraction are then plain  *)
(* integer addition and subtraction; comparisons are unsigned (ULt, ULe),  *)
(* and AddOverflows / SubUnderflows say when the exact result leaves       *)
(* 0 .. 2^64-1, which panics in a build with overflow checks (debug) and   *)
(* wraps in a build without them (release).                                *)
(***************************************************************************)
EXTENDS Integers, Sequences, FiniteSets, TLC

\* ------------------------------------------------------------------ bounds
MaxFileSize == 6
MaxChunkCount == 7
MaxMinChunkSize == 7
\* bounds of the download model (Spec)
DlMaxFileSize == 2
MaxRetries == 1
MaxBlock == 2
MaxRuns == 2
\* bounds of the retry model (SpecRetry)
RetryFileSize == 2
LargeRetries == 65

\* ChunkConfig::default().max_retries
DefaultMaxRetries == 3
\* width of the u64 type of the backoff arithmetic (2u64.pow, retry_delay_ms)
U64Bits == 64

\* ------------------------------------------------------- u64 arithmetic
ULt(a, b) == IF (a >= 0) = (b >= 0) THEN a < b ELSE a >= 0
ULe(a, b) == a = b \/ ULt(a, b)
SubUnderflows(a, b) == ULt(a, b)
AddOverflows(a, b) ==
  IF a >= 0 /\ b >= 0 THEN FALSE
  ELSE IF a < 0 /\ b < 0 THEN TRUE
  ELSE a + b >= 0

\* ------------------------------------------------------------ Chunk
Chunk(i, s, e, d) == [index |-> i, start |-> s, end |-> e, downloaded |-> d]

size(c) == c.end - c.start + 1

remaining(c) == size(c) - c.downloaded

is_complete(c) == ULe(size(c), c.downloaded)

resume_position(c) == c.start + c.downloaded

\* ------------------------------------------------------- backoff delay
\* A delay in milliseconds is m * 2^e, kept as the pair (m, e) with m odd,
\* or (0, 0) for zero: 2^63 and beyond cannot be written as a number here.
RECURSIVE Scaled(_, _)
Scaled(m, e) ==
  IF m = 0 THEN [m |-> 0, e |-> 0]
  ELSE IF m % 2 = 0 THEN Scaled(m \div 2, e + 1)
  ELSE [m |-> m, e |-> e]

\* number of bits of n >= 0
RECURSIVE BitLen(_)
BitLen(n) == IF n = 0 THEN 0 ELSE 1 + BitLen(n \div 2)

\* d * 2^e leaves 0 .. 2^64-1 (for e < 64)
MulOverflows(d, e) == d # 0 /\ BitLen(d) + e > U64Bits

Slept(delay) == [status |-> "ok", delay |-> delay]
\* the delay slept after 2u64.pow or the multiplication wrapped (release)
Wrapped(delay) == [status |-> "wrapped", delay |-> delay]
DelayPanicked == [status |-> "panic", delay |-> Scaled(0, 0)]

\* retry_delay_ms * 2u64.pow(attempt - 1), or retry_delay_ms: with overflow
\* checks an overflow of pow or of the product panics; without them pow
\* wraps to 0 from exponent 64 on and the product keeps its low 64 bits.
BackoffDelay(cfg, checks, attempt) ==
  IF ~cfg.exponential_backoff THEN Slept(Scaled(cfg.retry_delay_ms, 0))
  ELSE LET e == attempt - 1
           d == cfg.retry_delay_ms
       IN  IF e >= U64Bits
           THEN IF checks THEN DelayPanicked ELSE Wrapped(Scaled(0, 0))
           ELSE IF MulOverflows(d, e)
           THEN IF checks THEN DelayPanicked
                ELSE Wrapped(Scaled(d % (2 ^ (U64Bits - e)), e))
           ELSE Slept(Scaled(d, e))

\* ------------------------------------------------------ calculate_chunks
\* The outcome of a call: status "ok" with the returned chunks, or "panic".
\* wrapped records that some u64 operation left 0 .. 2^64-1 and wrapped
\* (possible only without overflow checks).
Returned(chunks, w) == [status |-> "ok", chunks |-> chunks, wrapped |-> w]
Panicked == [status |-> "panic", chunks |-> <<>>, wrapped |-> FALSE]

RECURSIVE ChunkLoop(_, _, _, _, _, _, _)
ChunkLoop(cfg, checks, file_size, chunk_size, i, start, acc) ==
  IF i >= cfg.chunk_count THEN Returned(acc.chunks, acc.wrapped)
  ELSE
    LET last == (i = cfg.chunk_count - 1)
        sum  == start + chunk_size
        ovf1 == IF last THEN SubUnderflows(file_size, 1)
                ELSE AddOverflows(start, chunk_size) \/ SubUnderflows(sum, 1)
        end  == IF last THEN file_size - 1 ELSE sum - 1
        ovf2 == AddOverflows(end, 1)
    IN  IF checks /\ ovf1 THEN Panicked
        ELSE IF checks /\ ovf2 THEN Panicked
        ELSE ChunkLoop(cfg, checks, file_size, chunk_size, i + 1, end + 1,
                       [chunks  |-> Append(acc.chunks, Chunk(i, start, end, 0)),
                        wrapped |-> acc.wrapped \/ ovf1 \/ ovf2])

calculate_chunks_no_collapse(cfg, checks, file_size) ==
  IF cfg.chunk_count = 0 THEN Panicked
  ELSE ChunkLoop(cfg, checks, file_size, file_size \div cfg.chunk_count, 0, 0,
                 [chunks |-> <<>>, wrapped |-> FALSE])

calculate_chunks(cfg, checks, file_size) ==
  IF ULt(file_size, cfg.min_chunk_size)
  THEN IF checks /\ SubUnderflows(file_size, 1) THEN Panicked
       ELSE Returned(<<Chunk(0, 0, file_size - 1, 0)>>, SubUnderflows(file_size, 1))
  ELSE IF cfg.chunk_count = 0 THEN Panicked
  ELSE ChunkLoop(cfg, checks, file_size, file_size \div cfg.chunk_count, 0, 0,
                 [chunks |-> <<>>, wrapped |-> FALSE])

\* --------------------------------------------------------- detect_resume
\* The file at the destination path: absent, or present with its bytes.
NoFile == [exists |-> FALSE, data |-> <<>>]
FileOf(bytes) == [exists |-> TRUE, data |-> bytes]

MarkAll(chunks) ==
  [j \in 1..Len(chunks) |-> [chunks[j] EXCEPT !.downloaded = size(chunks[j])]]

RECURSIVE Distribute(_, _, _)
Distribute(chunks, j, rem) ==
  IF j > Len(chunks) THEN chunks
  ELSE LET chunk_size == size(chunks[j])
       IN  IF ULe(chunk_size, rem)
           THEN Distribute([chunks EXCEPT ![j].downloaded = chunk_size],
                           j + 1, rem - chunk_size)
           ELSE IF ULt(0, rem)
           THEN Distribute([chunks EXCEPT ![j].downloaded = rem], j + 1, 0)
           ELSE chunks

RECURSIVE DistributeNoReset(_, _, _)
DistributeNoReset(chunks, j, rem) ==
  IF j > Len(chunks) THEN chunks
  ELSE LET chunk_size == size(chunks[j])
       IN  IF ULe(chunk_size, rem)
           THEN DistributeNoReset([chunks EXCEPT ![j].downloaded = chunk_size],
                                  j + 1, rem - chunk_size)
           ELSE IF ULt(0, rem)
           THEN DistributeNoReset([chunks EXCEPT ![j].downloaded = rem], j + 1, rem)
           ELSE chunks

detect_resume_no_reset(cfg, checks, file, file_size) ==
  LET base == calculate_chunks(cfg, checks, file_size)
  IN  IF base.status = "panic" THEN Panicked
      ELSE IF ~file.exists THEN base
      ELSE LET existing_size == Len(file.data)
           IN  IF ULe(file_size, existing_size)
               THEN Returned(MarkAll(base.chunks), base.wrapped)
               ELSE Returned(DistributeNoReset(base.chunks, 1, existing_size),
                             base.wrapped)

detect_resume(cfg, checks, file, file_size) ==
  LET base == calculate_chunks(cfg, checks, file_size)
  IN  IF base.status = "panic" THEN Panicked
      ELSE IF ~file.exists THEN base
      ELSE LET existing_size == Len(file.data)
           IN  IF ULe(file_size, existing_size)
               THEN Returned(MarkAll(base.chunks), base.wrapped)
               ELSE Returned(Distribute(base.chunks, 1, existing_size),
                             base.wrapped)

\* ------------------------------------------------------------------ state
VARIABLES
  config,           \* ChunkConfig of the downloader
  overflow_checks,  \* TRUE: arithmetic overflow panics (debug); FALSE: wraps
  server,           \* the resource: content length and Accept-Ranges: bytes
  disk,             \* the file at the destination path
  ret,              \* outcome of a direct call of calculate_chunks / detect_resume
  co,               \* the running download / download_resumable call
  tasks,            \* the spawned range tasks, in spawn order
  hist              \* history: what this and the previous invocation did
                    \* (torn: the tasks an attempt of which failed with a
                    \* network error after it had written bytes)

vars == <<config, overflow_checks, server, disk, ret, co, tasks, hist>>

NoCall == [fn |-> "none", status |-> "none", chunks |-> <<>>, wrapped |-> FALSE]
CallOf(fn, out) ==
  [fn |-> fn, status |-> out.status, chunks |-> out.chunks, wrapped |-> out.wrapped]

Zeros(n) == [k \in 1..n |-> 0]

Configs ==
  [chunk_count : 0..MaxChunkCount, min_chunk_size : 0..MaxMinChunkSize,
   max_retries : {DefaultMaxRetries},
   retry_delay_ms : {1}, exponential_backoff : {TRUE}]

\* ------------------------------------------------- results and idle state
NoResult == [kind |-> "none", bytes |-> 0, error |-> "none"]
Ok(n) == [kind |-> "Ok", bytes |-> n, error |-> "none"]
Err(e) == [kind |-> "Err", bytes |-> 0, error |-> e]
Panic == [kind |-> "Panic", bytes |-> 0, error |-> "none"]

IdleCo ==
  [pc |-> "idle", entry |-> "none", probe |-> "none",
   probe_cause |-> "none", probe_error |-> "none", file_size |-> 0,
   chunks |-> <<>>, next |-> 1, joined |-> 0, total_bytes |-> 0,
   gets |-> 0, status |-> 0, error_code |-> 0, body |-> <<>>,
   result |-> NoResult]

NoPrev == [kind |-> "none", entry |-> "none", fresh |-> FALSE, written |-> {}]

\* limit: how many times the caller invokes the downloader on the path
InitHist(limit) ==
  [run |-> 0, limit |-> limit, start_disk |-> NoFile, written |-> {},
   requested |-> {}, faulty |-> FALSE, torn |-> {}, prev |-> NoPrev]

Idle == co = IdleCo /\ tasks = <<>> /\ hist = InitHist(0)

\* ---------------------------------------------- calculate_chunks, called alone
InitCalc ==
  /\ config \in Configs
  /\ overflow_checks \in BOOLEAN
  /\ server \in [content_length : 0..MaxFileSize, accept_ranges : {TRUE}]
  /\ disk = NoFile
  /\ ret = NoCall
  /\ Idle

CallCalculateChunks ==
  /\ ret.fn = "none"
  /\ ret' = CallOf("calculate_chunks",
                   calculate_chunks(config, overflow_checks, server.content_length))
  /\ UNCHANGED <<config, overflow_checks, server, disk, co, tasks, hist>>

SpecCalc == InitCalc /\ [][CallCalculateChunks]_vars

\* ------------------------------------------------- detect_resume, called alone
InitResume ==
  /\ config \in Configs
  /\ overflow_checks \in BOOLEAN
  /\ server \in [content_length : 0..MaxFileSize, accept_ranges : {TRUE}]
  /\ disk \in {NoFile} \cup {FileOf(Zeros(n)) : n \in 0..(MaxFileSize + 1)}
  /\ ret = NoCall
  /\ Idle

CallDetectResume ==
  /\ ret.fn = "none"
  /\ ret' = CallOf("detect_resume",
                   detect_resume(config, overflow_checks, disk, server.content_length))
  /\ UNCHANGED <<config, overflow_checks, server, disk, co, tasks, hist>>

SpecResume == InitResume /\ [][CallDetectResume]_vars

\* ======================================================================
\* download / download_resumable
\* ======================================================================
\* Byte i (0-based) of the resource is i + 1; a byte nobody wrote is 0.
Resource(n) == [k \in 1..n |-> k]

\* The body of an honest 206 answer to Range: bytes=a-b
RangeBody(a, b) ==
  LET hi == IF b + 1 <= server.content_length THEN b + 1 ELSE server.content_length
  IN  SubSeq(Resource(server.content_length), a + 1, hi)

\* File::set_len: truncate, or extend with zero bytes
SetLength(data, n) ==
  [k \in 1..n |-> IF k <= Len(data) THEN data[k] ELSE 0]

\* write_all of block at offset pos (a write past the end extends the file)
WriteAt(data, pos, block) ==
  LET stop == pos + Len(block)
      n    == IF stop > Len(data) THEN stop ELSE Len(data)
  IN  [k \in 1..n |-> IF k > pos /\ k <= stop THEN block[k - pos]
                      ELSE IF k <= Len(data) THEN data[k] ELSE 0]

DlConfigs ==
  [chunk_count : 0..(DlMaxFileSize + 1),
   min_chunk_size : {1, DlMaxFileSize + 1},
   max_retries : 0..MaxRetries,
   retry_delay_ms : {1}, exponential_backoff : {TRUE}]

\* one invocation, on a path that holds no file or a file of zero bytes
Init ==
  /\ config \in DlConfigs
  /\ overflow_checks \in BOOLEAN
  /\ server \in [content_length : 1..DlMaxFileSize, accept_ranges : BOOLEAN]
  /\ disk \in {NoFile} \cup {FileOf(Zeros(n)) : n \in 0..DlMaxFileSize}
  /\ ret = NoCall
  /\ co = IdleCo
  /\ tasks = <<>>
  /\ hist = InitHist(1)

\* repeated invocations on a path that holds no file at first
InitRerun ==
  /\ config \in DlConfigs
  /\ overflow_checks \in BOOLEAN
  /\ server \in [content_length : 1..DlMaxFileSize, accept_ranges : BOOLEAN]
  /\ disk = NoFile
  /\ ret = NoCall
  /\ co = IdleCo
  /\ tasks = <<>>
  /\ hist = InitHist(MaxRuns)

AllTasksDone == \A t \in 1..Len(tasks) : tasks[t].pc = "done"

Finish(r) == [co EXCEPT !.pc = "done", !.result = r]

Faulty == [hist EXCEPT !.faulty = TRUE]

\* Invoke, going on without get_file_info
InvokeSkipProbe(entry) ==
  /\ co.pc \in {"idle", "done"}
  /\ AllTasksDone
  /\ hist.run < hist.limit
  /\ LET r == calculate_chunks(config, overflow_checks, server.content_length)
     IN  co' = [IdleCo EXCEPT !.pc = IF entry = "download" THEN "create" ELSE "scan",
                              !.entry = entry,
                              !.file_size = server.content_length,
                              !.chunks = r.chunks]
  /\ tasks' = <<>>
  /\ hist' = [InitHist(hist.limit) EXCEPT !.run = hist.run + 1, !.start_disk = disk]
  /\ UNCHANGED <<config, overflow_checks, server, disk, ret>>

\* A caller invokes download or download_resumable on the path (again, once
\* the previous invocation has returned and its tasks have ended).
Invoke(entry) ==
  /\ co.pc \in {"idle", "done"}
  /\ AllTasksDone
  /\ hist.run < hist.limit
  /\ co' = [IdleCo EXCEPT !.pc = "probe", !.entry = entry]
  /\ tasks' = <<>>
  /\ hist' = [run |-> hist.run + 1, limit |-> hist.limit,
              start_disk |-> disk, written |-> {},
              requested |-> {}, faulty |-> FALSE, torn |-> {},
              prev |-> [kind |-> co.result.kind, entry |-> co.entry,
                        fresh |-> ~hist.start_disk.exists,
                        written |-> hist.written]]
  /\ UNCHANGED <<config, overflow_checks, server, disk, ret>>

\* A caller invokes HttpDownloader::download on the path: no probe, the GET
\* is the first request.
InvokeHttp ==
  /\ co.pc \in {"idle", "done"}
  /\ AllTasksDone
  /\ hist.run < hist.limit
  /\ co' = [IdleCo EXCEPT !.pc = "single_send", !.entry = "http_download"]
  /\ tasks' = <<>>
  /\ hist' = [InitHist(hist.limit) EXCEPT !.run = hist.run + 1,
                                          !.start_disk = disk]
  /\ UNCHANGED <<config, overflow_checks, server, disk, ret>>

\* why get_file_info fails: the HEAD request cannot be sent or answered, its
\* status is not 2xx, or the response carries no content length
ProbeCauses == {"send", "status", "no_content_length"}

\* the DownloadError get_file_info returns for each cause
ProbeError(cause) ==
  CASE cause = "send" -> "NetworkError"
    [] cause = "status" -> "HttpError"
    [] cause = "no_content_length" -> "InvalidUrl"

\* ProbeFail, File::create having run before the probe
ProbeFailAfterCreate(cause) ==
  /\ co.pc = "probe"
  /\ co' = [Finish(Err(ProbeError(cause))) EXCEPT
              !.probe = "failed", !.probe_cause = cause,
              !.probe_error = ProbeError(cause)]
  /\ disk' = FileOf(<<>>)
  /\ hist' = Faulty
  /\ UNCHANGED <<config, overflow_checks, server, ret, tasks>>

\* get_file_info fails and the caller returns its error with ?
ProbeFail(cause) ==
  /\ co.pc = "probe"
  /\ co' = [Finish(Err(ProbeError(cause))) EXCEPT
              !.probe = "failed", !.probe_cause = cause,
              !.probe_error = ProbeError(cause)]
  /\ hist' = Faulty
  /\ UNCHANGED <<config, overflow_checks, server, disk, ret, tasks>>

\* get_file_info returns (content_length, supports_ranges); the caller goes on
\* to its next await: download_single, File::create (download, after
\* calculate_chunks) or detect_resume (download_resumable).
ProbeOk ==
  /\ co.pc = "probe"
  /\ LET fs == server.content_length
         r  == calculate_chunks(config, overflow_checks, fs)
     IN  co' =
           IF ~server.accept_ranges
           THEN [co EXCEPT !.probe = "no_ranges", !.file_size = fs,
                           !.pc = "single_send"]
           ELSE IF co.entry = "download_resumable"
           THEN [co EXCEPT !.probe = "ranges", !.file_size = fs, !.pc = "scan"]
           ELSE IF r.status = "panic"
           THEN [co EXCEPT !.probe = "ranges", !.file_size = fs,
                           !.pc = "done", !.result = Panic]
           ELSE [co EXCEPT !.probe = "ranges", !.file_size = fs,
                           !.chunks = r.chunks, !.pc = "create"]
  /\ UNCHANGED <<config, overflow_checks, server, disk, ret, tasks, hist>>

\* chunks.iter().map(|c| c.remaining()).sum()
RECURSIVE SumRemaining(_)
SumRemaining(chunks) ==
  IF chunks = <<>> THEN 0 ELSE remaining(Head(chunks)) + SumRemaining(Tail(chunks))

\* download_resumable: detect_resume, then the already-complete check
Scan ==
  /\ co.pc = "scan"
  /\ LET r == detect_resume(config, overflow_checks, disk, co.file_size)
     IN  co' =
           IF r.status = "panic" THEN Finish(Panic)
           ELSE IF SumRemaining(r.chunks) = 0
           THEN [Finish(Ok(0)) EXCEPT !.chunks = r.chunks]
           ELSE [co EXCEPT !.chunks = r.chunks, !.pc = "ensure"]
  /\ UNCHANGED <<config, overflow_checks, server, disk, ret, tasks, hist>>

\* NextToSpawn, skipping no chunk
NextToSpawnAll(chunks, i, skip_complete) == i

\* index of the first chunk at or after i that gets a task
RECURSIVE NextToSpawn(_, _, _)
NextToSpawn(chunks, i, skip_complete) ==
  IF i > Len(chunks) THEN i
  ELSE IF skip_complete /\ is_complete(chunks[i])
  THEN NextToSpawn(chunks, i + 1, skip_complete)
  ELSE i

\* the coordinator enters its spawn loop (or its join loop if nothing is spawned)
ToSpawn(c) ==
  LET n == NextToSpawn(c.chunks, 1, c.entry = "download_resumable")
  IN  [c EXCEPT !.next = n,
                !.pc = IF n > Len(c.chunks) THEN "join" ELSE "spawn"]

\* download_resumable: the file exists and is opened for writing (not
\* truncated, not resized), or it is created
Ensure ==
  /\ co.pc = "ensure"
  /\ IF disk.exists
     THEN co' = ToSpawn(co) /\ disk' = disk
     ELSE co' = [co EXCEPT !.pc = "set_len"] /\ disk' = FileOf(<<>>)
  /\ UNCHANGED <<config, overflow_checks, server, ret, tasks, hist>>

\* download: File::create creates the file or truncates it to empty
Create ==
  /\ co.pc = "create"
  /\ co' = [co EXCEPT !.pc = "set_len"]
  /\ disk' = FileOf(<<>>)
  /\ UNCHANGED <<config, overflow_checks, server, ret, tasks, hist>>

SetLen ==
  /\ co.pc = "set_len"
  /\ disk' = FileOf(SetLength(disk.data, co.file_size))
  /\ co' = ToSpawn(co)
  /\ UNCHANGED <<config, overflow_checks, server, ret, tasks, hist>>

\* open, File::create or set_len fails: the call returns FileError
CoFileError ==
  /\ co.pc \in {"ensure", "create", "set_len"}
  /\ co' = Finish(Err("FileError"))
  /\ hist' = Faulty
  /\ UNCHANGED <<config, overflow_checks, server, disk, ret, tasks>>

\* chunk, attempt, last_error, start_byte, bytes_written are the variables of
\* download_chunk_with_retry and download_chunk; status is the status of the
\* latest response (0: none), cursor the position of the task's file handle
\* and body what the response stream has yet to yield.  calls, gets and sleeps count the calls of download_chunk, the
\* ranged GETs sent and the sleeps begun; outcome is what the latest call of
\* download_chunk returned; delay is the duration of the latest sleep.
NewTask(chunk) ==
  [chunk |-> chunk, pc |-> "open", attempt |-> 0, last_error |-> "none",
   start_byte |-> 0, status |-> 0, cursor |-> 0, body |-> <<>>,
   bytes_written |-> 0,
   calls |-> 0, gets |-> 0, sleeps |-> 0, outcome |-> "none",
   delay |-> Scaled(0, 0), result |-> NoResult]

\* download_chunk has returned: its local variables are gone
ChunkReturned(task) ==
  [task EXCEPT !.start_byte = 0, !.status = 0, !.body = <<>>,
               !.bytes_written = 0]

\* tokio::spawn of the task of the next chunk
Spawn ==
  /\ co.pc = "spawn"
  /\ tasks' = Append(tasks, NewTask(co.chunks[co.next]))
  /\ LET n == NextToSpawn(co.chunks, co.next + 1, co.entry = "download_resumable")
     IN  co' = [co EXCEPT !.next = n,
                          !.pc = IF n > Len(co.chunks) THEN "join" ELSE "spawn"]
  /\ UNCHANGED <<config, overflow_checks, server, disk, ret, hist>>

\* Join, going on after an Err and returning the last error met
JoinLastError ==
  /\ co.pc = "join"
  /\ co.joined < Len(tasks)
  /\ LET t == tasks[co.joined + 1]
         e == IF t.result.kind = "Err" THEN t.result ELSE co.result
     IN  /\ t.pc = "done"
         /\ co' =
              IF co.joined + 1 = Len(tasks)
              THEN IF e.kind = "Err" THEN [Finish(e) EXCEPT !.joined = co.joined + 1]
                   ELSE [Finish(Ok(co.total_bytes + t.result.bytes))
                           EXCEPT !.joined = co.joined + 1,
                                  !.total_bytes = co.total_bytes + t.result.bytes]
              ELSE [co EXCEPT !.joined = co.joined + 1,
                              !.total_bytes = co.total_bytes + t.result.bytes,
                              !.result = e]
  /\ UNCHANGED <<config, overflow_checks, server, disk, ret, tasks, hist>>

\* task.await of the next handle, in spawn order: a task that panicked
\* returns NetworkError("Task failed"), an Err returns at once, the last Ok
\* returns the total
Join ==
  /\ co.pc = "join"
  /\ co.joined < Len(tasks)
  /\ LET t == tasks[co.joined + 1]
     IN  /\ t.pc = "done"
         /\ co' =
              IF t.result.kind = "Panic" THEN Finish(Err("NetworkError"))
              ELSE IF t.result.kind = "Err" THEN Finish(t.result)
              ELSE IF co.joined + 1 = Len(tasks)
              THEN [Finish(Ok(co.total_bytes + t.result.bytes))
                      EXCEPT !.joined = co.joined + 1,
                             !.total_bytes = co.total_bytes + t.result.bytes]
              ELSE [co EXCEPT !.joined = co.joined + 1,
                              !.total_bytes = co.total_bytes + t.result.bytes]
  /\ UNCHANGED <<config, overflow_checks, server, disk, ret, tasks, hist>>

\* ------------------------------------------------------------ range tasks
\* where download_chunk seeks before streaming
SeekTargetZero(chunk) == 0

SeekTarget(chunk) == resume_position(chunk)

SetTask(t, rec) == [tasks EXCEPT ![t] = rec]

\* File::options().write(true).open(path) in the spawned task
TaskOpen(t) ==
  /\ tasks[t].pc = "open"
  /\ tasks' = SetTask(t, [tasks[t] EXCEPT !.pc = "call"])
  /\ UNCHANGED <<config, overflow_checks, server, disk, ret, co, hist>>

\* that open fails: the task returns FileError without entering the retry loop
TaskOpenFail(t) ==
  /\ tasks[t].pc = "open"
  /\ tasks' = SetTask(t, [tasks[t] EXCEPT !.pc = "done",
                                         !.result = Err("FileError")])
  /\ hist' = Faulty
  /\ UNCHANGED <<config, overflow_checks, server, disk, ret, co>>

\* download_chunk: a complete chunk returns Ok(0); otherwise the ranged GET
\* bytes=resume_position-end is sent and answered 206 with those bytes, and
\* the task's file handle seeks to start_byte
TaskCall(t) ==
  /\ tasks[t].pc = "call"
  /\ LET c == tasks[t].chunk
         a == resume_position(c)
     IN  IF is_complete(c)
         THEN /\ tasks' = SetTask(t, [tasks[t] EXCEPT !.pc = "done",
                                                     !.calls = @ + 1,
                                                     !.outcome = "Ok",
                                                     !.result = Ok(0)])
              /\ hist' = hist
         ELSE /\ tasks' = SetTask(t, [tasks[t] EXCEPT !.pc = "stream",
                                                     !.calls = @ + 1,
                                                     !.gets = @ + 1,
                                                     !.start_byte = a,
                                                     !.status = 206,
                                                     !.cursor = SeekTarget(c),
                                                     !.bytes_written = 0,
                                                     !.body = RangeBody(a, c.end)])
              /\ hist' = [hist EXCEPT !.requested = @ \cup (a..c.end)]
  /\ UNCHANGED <<config, overflow_checks, server, disk, ret, co>>

\* stream.next() yields a block of n bytes, written with write_all
TaskStreamBlock(t, n) ==
  /\ tasks[t].pc = "stream"
  /\ n <= Len(tasks[t].body)
  /\ LET block == SubSeq(tasks[t].body, 1, n)
         pos   == tasks[t].cursor
     IN  /\ disk' = FileOf(WriteAt(disk.data, pos, block))
         /\ tasks' = SetTask(t, [tasks[t] EXCEPT
                                   !.cursor = pos + n,
                                   !.bytes_written = @ + n,
                                   !.body = SubSeq(@, n + 1, Len(@))])
         /\ hist' = [hist EXCEPT !.written = @ \cup (pos..(pos + n - 1))]
  /\ UNCHANGED <<config, overflow_checks, server, ret, co>>

\* TaskStreamEnd, returning the size of the chunk
TaskStreamEndWhole(t) ==
  /\ tasks[t].pc = "stream"
  /\ tasks[t].body = <<>>
  /\ tasks' = SetTask(t, [ChunkReturned(tasks[t]) EXCEPT
                                   !.pc = "done",
                                   !.outcome = "Ok",
                                   !.result = Ok(size(tasks[t].chunk))])
  /\ UNCHANGED <<config, overflow_checks, server, disk, ret, co, hist>>

\* stream.next() yields None: download_chunk returns Ok(bytes_written)
TaskStreamEnd(t) ==
  /\ tasks[t].pc = "stream"
  /\ tasks[t].body = <<>>
  /\ tasks' = SetTask(t, [ChunkReturned(tasks[t]) EXCEPT
                                   !.pc = "done",
                                   !.outcome = "Ok",
                                   !.result = Ok(tasks[t].bytes_written)])
  /\ UNCHANGED <<config, overflow_checks, server, disk, ret, co, hist>>

\* RetryStep, calling download_chunk again at once instead of sleeping
RetryStepNoSleep(task, e) ==
  LET attempt == task.attempt + 1
      backoff == BackoffDelay(config, overflow_checks, attempt)
  IN  IF attempt > config.max_retries
      THEN [task EXCEPT !.attempt = attempt, !.last_error = e,
                        !.pc = "done", !.result = Err(e)]
      ELSE IF backoff.status = "panic"
      THEN [task EXCEPT !.attempt = attempt, !.last_error = e,
                        !.pc = "done", !.result = Panic]
      ELSE [task EXCEPT !.attempt = attempt, !.outcome = "Err", !.pc = "call"]

\* The Err arm of the loop of download_chunk_with_retry: count the attempt,
\* give up with the last error once attempt > max_retries, otherwise compute
\* the delay (which may panic) and sleep.  last_error is read only after the
\* break, so its value is kept only there; while a retry is pending outcome
\* says just "Err".
RetryStep(task, e) ==
  LET attempt == task.attempt + 1
      backoff == BackoffDelay(config, overflow_checks, attempt)
  IN  IF attempt > config.max_retries
      THEN [task EXCEPT !.attempt = attempt, !.last_error = e,
                        !.pc = "done", !.result = Err(e)]
      ELSE IF backoff.status = "panic"
      THEN [task EXCEPT !.attempt = attempt, !.last_error = e,
                        !.pc = "done", !.result = Panic]
      ELSE [task EXCEPT !.attempt = attempt, !.outcome = "Err",
                        !.pc = "sleep", !.delay = backoff.delay,
                        !.sleeps = @ + 1]

\* download_chunk returns Err(e).  Before the stream: the send fails
\* (NetworkError), the status is neither 2xx nor 206 (HttpError) or the seek
\* fails (FileError).  In the stream: the stream fails (NetworkError) or a
\* write fails (FileError).  download_chunk_with_retry then takes its Err arm.
TaskFail(t, e) ==
  /\ \/ /\ tasks[t].pc = "call" /\ ~is_complete(tasks[t].chunk)
        /\ tasks' = SetTask(t, RetryStep(
             [ChunkReturned(tasks[t]) EXCEPT !.calls = @ + 1, !.gets = @ + 1,
                                             !.outcome = e], e))
     \/ /\ tasks[t].pc = "stream"
        /\ e = "NetworkError" \/ (e = "FileError" /\ tasks[t].body # <<>>)
        /\ tasks' = SetTask(t, RetryStep(
             [ChunkReturned(tasks[t]) EXCEPT !.outcome = e], e))
  /\ hist' = IF /\ tasks[t].pc = "stream" /\ e = "NetworkError"
                /\ tasks[t].bytes_written >= 1
             THEN [Faulty EXCEPT !.torn = @ \cup {t}]
             ELSE Faulty
  /\ UNCHANGED <<config, overflow_checks, server, disk, ret, co>>

\* the backoff sleep ends; the loop calls download_chunk again with the same chunk
TaskWake(t) ==
  /\ tasks[t].pc = "sleep"
  /\ tasks' = SetTask(t, [tasks[t] EXCEPT !.pc = "call"])
  /\ UNCHANGED <<config, overflow_checks, server, disk, ret, co, hist>>

\* ------------------- download_single and HttpDownloader::download (same code)
\* the non-ranged GET is sent and answered 2xx with the whole resource
SingleSend ==
  /\ co.pc = "single_send"
  /\ co' = [co EXCEPT !.pc = "single_create", !.gets = @ + 1,
                      !.status = 200,
                      !.body = Resource(server.content_length)]
  /\ UNCHANGED <<config, overflow_checks, server, disk, ret, tasks, hist>>

\* SingleCreate, opening an existing file as it is
SingleCreateNoTruncate ==
  /\ co.pc = "single_create"
  /\ co' = [co EXCEPT !.pc = "single_stream"]
  /\ disk' = IF disk.exists THEN disk ELSE FileOf(<<>>)
  /\ UNCHANGED <<config, overflow_checks, server, ret, tasks, hist>>

\* File::create: the file is created or truncated to empty
SingleCreate ==
  /\ co.pc = "single_create"
  /\ co' = [co EXCEPT !.pc = "single_stream"]
  /\ disk' = FileOf(<<>>)
  /\ UNCHANGED <<config, overflow_checks, server, ret, tasks, hist>>

SingleStreamBlock(n) ==
  /\ co.pc = "single_stream"
  /\ n <= Len(co.body)
  /\ disk' = FileOf(WriteAt(disk.data, co.total_bytes, SubSeq(co.body, 1, n)))
  /\ co' = [co EXCEPT !.total_bytes = @ + n, !.body = SubSeq(@, n + 1, Len(@))]
  /\ UNCHANGED <<config, overflow_checks, server, ret, tasks, hist>>

\* end of the stream, then file.flush()
SingleFlush ==
  /\ co.pc = "single_stream"
  /\ co.body = <<>>
  /\ co' = Finish(Ok(co.total_bytes))
  /\ UNCHANGED <<config, overflow_checks, server, disk, ret, tasks, hist>>

\* the statuses of a response that is not a success
ErrorStatuses == {404, 500}

\* SingleFail, sending the GET again after a failure in the stream
SingleFailRetry(e) ==
  /\ \/ /\ co.pc = "single_send" /\ e = "NetworkError"
        /\ co' = [Finish(Err(e)) EXCEPT !.gets = @ + 1]
     \/ /\ co.pc = "single_send" /\ e = "HttpError"
        /\ \E code \in ErrorStatuses :
             co' = [Finish(Err(e)) EXCEPT !.gets = @ + 1, !.status = code,
                                          !.error_code = code]
     \/ /\ co.pc = "single_create" /\ e = "FileError"
        /\ co' = Finish(Err(e))
     \/ /\ co.pc = "single_stream" /\ e = "FileError"
        /\ co' = Finish(Err(e))
     \/ /\ co.pc = "single_stream" /\ e = "NetworkError"
        /\ co' = [co EXCEPT !.pc = "single_send", !.total_bytes = 0,
                            !.body = <<>>, !.status = 0]
  /\ hist' = Faulty
  /\ UNCHANGED <<config, overflow_checks, server, disk, ret, tasks>>

\* the single attempt fails and its error is returned: the send fails
\* (NetworkError), the status is not 2xx (HttpError(status)), File::create
\* fails (FileError), the stream fails (NetworkError), a write or the flush
\* fails (FileError)
SingleFail(e) ==
  /\ \/ /\ co.pc = "single_send" /\ e = "NetworkError"
        /\ co' = [Finish(Err(e)) EXCEPT !.gets = @ + 1]
     \/ /\ co.pc = "single_send" /\ e = "HttpError"
        /\ \E code \in ErrorStatuses :
             co' = [Finish(Err(e)) EXCEPT !.gets = @ + 1, !.status = code,
                                          !.error_code = code]
     \/ /\ co.pc = "single_create" /\ e = "FileError"
        /\ co' = Finish(Err(e))
     \/ /\ co.pc = "single_stream" /\ e \in {"NetworkError", "FileError"}
        /\ co' = Finish(Err(e))
  /\ hist' = Faulty
  /\ UNCHANGED <<config, overflow_checks, server, disk, ret, tasks>>

Next ==
  \/ \E entry \in {"download", "download_resumable"} : Invoke(entry)
  \/ \E cause \in ProbeCauses : ProbeFail(cause)
  \/ ProbeOk
  \/ Scan
  \/ Ensure
  \/ Create
  \/ SetLen
  \/ CoFileError
  \/ Spawn
  \/ Join
  \/ \E t \in 1..Len(tasks) :
       \/ TaskOpen(t)
       \/ TaskOpenFail(t)
       \/ TaskCall(t)
       \/ \E n \in 1..MaxBlock : TaskStreamBlock(t, n)
       \/ TaskStreamEnd(t)
       \/ \E e \in {"NetworkError", "HttpError", "FileError"} : TaskFail(t, e)
       \/ TaskWake(t)
  \/ SingleSend
  \/ SingleCreate
  \/ \E n \in 1..MaxBlock : SingleStreamBlock(n)
  \/ SingleFlush
  \/ \E e \in {"NetworkError", "HttpError", "FileError"} : SingleFail(e)

Spec == Init /\ [][Next]_vars

SpecRerun == InitRerun /\ [][Next]_vars

\* ------------------------------------- a server that ignores the Range header
\* download_chunk sends its ranged GET and the server answers 200 with the
\* whole resource; is_success() accepts it, and the handle seeks to start_byte
TaskCallFull(t) ==
  /\ tasks[t].pc = "call"
  /\ ~is_complete(tasks[t].chunk)
  /\ LET c == tasks[t].chunk
         a == resume_position(c)
     IN  /\ tasks' = SetTask(t, [tasks[t] EXCEPT
                                   !.pc = "stream",
                                   !.calls = @ + 1,
                                   !.gets = @ + 1,
                                   !.start_byte = a,
                                   !.status = 200,
                                   !.cursor = SeekTarget(c),
                                   !.bytes_written = 0,
                                   !.body = Resource(server.content_length)])
         /\ hist' = [hist EXCEPT !.requested = @ \cup (a..c.end)]
  /\ UNCHANGED <<config, overflow_checks, server, disk, ret, co>>

NextLoose ==
  \/ Next
  \/ \E t \in 1..Len(tasks) : TaskCallFull(t)

\* one invocation against a server that may answer a ranged GET with 200
SpecLoose == Init /\ [][NextLoose]_vars

\* ------------------------------------------------ the single-stream path
\* one invocation of HttpDownloader::download, or of download or
\* download_resumable against a server without range support
InitSingle ==
  /\ config \in DlConfigs
  /\ overflow_checks \in BOOLEAN
  /\ server \in [content_length : 1..DlMaxFileSize, accept_ranges : {FALSE}]
  /\ disk \in {NoFile} \cup {FileOf(Zeros(n)) : n \in 0..DlMaxFileSize}
  /\ ret = NoCall
  /\ co = IdleCo
  /\ tasks = <<>>
  /\ hist = InitHist(1)

NextSingle ==
  \/ InvokeHttp
  \/ \E entry \in {"download", "download_resumable"} : Invoke(entry)
  \/ \E cause \in ProbeCauses : ProbeFail(cause)
  \/ ProbeOk
  \/ SingleSend
  \/ SingleCreate
  \/ \E n \in 1..MaxBlock : SingleStreamBlock(n)
  \/ SingleFlush
  \/ \E e \in {"NetworkError", "HttpError", "FileError"} : SingleFail(e)

SpecSingle == InitSingle /\ [][NextSingle]_vars

\* ------------------------------ download_chunk_with_retry, called alone
RetryConfigs ==
  [chunk_count : {1}, min_chunk_size : {1},
   max_retries : {0, 1, LargeRetries},
   retry_delay_ms : {0, 1, 3}, exponential_backoff : BOOLEAN]

\* one call of download_chunk_with_retry, for one chunk of a file of
\* RetryFileSize bytes that exists with that length, its handle open
InitRetry ==
  /\ config \in RetryConfigs
  /\ overflow_checks \in BOOLEAN
  /\ server = [content_length |-> RetryFileSize, accept_ranges |-> TRUE]
  /\ disk = FileOf(Zeros(RetryFileSize))
  /\ ret = NoCall
  /\ co = IdleCo
  /\ \E d \in 0..RetryFileSize :
       tasks = <<[NewTask(Chunk(0, 0, RetryFileSize - 1, d)) EXCEPT !.pc = "call"]>>
  /\ hist = InitHist(0)

NextRetry ==
  \E t \in 1..Len(tasks) :
    \/ TaskCall(t)
    \/ \E n \in 1..MaxBlock : TaskStreamBlock(t, n)
    \/ TaskStreamEnd(t)
    \/ \E e \in {"NetworkError", "HttpError", "FileError"} : TaskFail(t, e)
    \/ TaskWake(t)

SpecRetry == InitRetry /\ [][NextRetry]_vars

\* ------------------------------------ an invocation with a long retry budget
LongConfigs ==
  [chunk_count : {1}, min_chunk_size : {1}, max_retries : {LargeRetries},
   retry_delay_ms : {1}, exponential_backoff : {TRUE}]

\* one invocation whose single range task may retry LargeRetries times
InitLong ==
  /\ config \in LongConfigs
  /\ overflow_checks \in BOOLEAN
  /\ server \in [content_length : 1..DlMaxFileSize, accept_ranges : BOOLEAN]
  /\ disk \in {NoFile, FileOf(<<>>)}
  /\ ret = NoCall
  /\ co = IdleCo
  /\ tasks = <<>>
  /\ hist = InitHist(1)

SpecLong == InitLong /\ [][Next]_vars

\* The runtime keeps polling the coordinator and every spawned task, every
\* request, stream read, file operation and sleep ends (with success or with
\* an error), and the caller does invoke: a step that can be taken is taken.
SpecLongFair == SpecLong /\ WF_vars(Next)

\* ======================================================================
\* Properties of calculate_chunks and detect_resume
\* ======================================================================
TotalSize == server.content_length

\* a + 1 = b in the integers (not merely modulo 2^64)
ExactSucc(a, b) == ~AddOverflows(a, 1) /\ a + 1 = b

\* end - start + 1 is computed without leaving 0 .. 2^64-1
SizeExact(c) == ULe(c.start, c.end) /\ ~AddOverflows(c.end - c.start, 1)

RECURSIVE SumSizes(_)
SumSizes(chunks) ==
  IF chunks = <<>> THEN 0 ELSE size(Head(chunks)) + SumSizes(Tail(chunks))

RECURSIVE SumDownloaded(_)
SumDownloaded(chunks) ==
  IF chunks = <<>> THEN 0 ELSE Head(chunks).downloaded + SumDownloaded(Tail(chunks))

Min(a, b) == IF a <= b THEN a ELSE b

\* The chunks are a contiguous cover of [0, total-1] by non-empty ranges.
ContiguousCover(chunks, total) ==
  /\ Len(chunks) >= 1
  /\ chunks[1].start = 0
  /\ chunks[Len(chunks)].end = total - 1
  /\ \A j \in 1..(Len(chunks) - 1) : ExactSucc(chunks[j].end, chunks[j + 1].start)
  /\ \A j \in 1..Len(chunks) : SizeExact(chunks[j]) /\ size(chunks[j]) >= 1

CalcCalled == ret.fn = "calculate_chunks"
ScanCalled == ret.fn = "detect_resume"

\* C4: for totalSize >= minChunkSize, totalSize >= 1 and chunkCount >= 1,
\* calculate_chunks returns a list whose first range starts at 0, whose last
\* range ends at totalSize-1, whose adjacent ranges satisfy end + 1 = next start
\* (in the integers), and whose sizes sum to totalSize.
C4_Coverage ==
  (/\ CalcCalled
   /\ config.chunk_count >= 1
   /\ TotalSize >= 1
   /\ TotalSize >= config.min_chunk_size)
    => /\ ret.status = "ok"
       /\ Len(ret.chunks) >= 1
       /\ ret.chunks[1].start = 0
       /\ ret.chunks[Len(ret.chunks)].end = TotalSize - 1
       /\ \A j \in 1..(Len(ret.chunks) - 1) :
            ExactSucc(ret.chunks[j].end, ret.chunks[j + 1].start)
       /\ \A j \in 1..Len(ret.chunks) : SizeExact(ret.chunks[j])
       /\ SumSizes(ret.chunks) = TotalSize

\* C5: for 1 <= totalSize < minChunkSize and every chunkCount, calculate_chunks
\* returns exactly one range: index 0, start 0, end totalSize-1, downloaded 0.
C5_SmallFileCollapse ==
  (CalcCalled /\ TotalSize >= 1 /\ TotalSize < config.min_chunk_size)
    => /\ ret.status = "ok"
       /\ ret.chunks = <<Chunk(0, 0, TotalSize - 1, 0)>>

C5_Witness ==
  /\ CalcCalled
  /\ TotalSize < config.min_chunk_size
  /\ config.chunk_count > 1
  /\ TotalSize > config.chunk_count
  /\ ret.status = "ok"
  /\ Len(ret.chunks) = 1

\* C6: for totalSize >= minChunkSize and chunkCount 0, 1 or greater than
\* totalSize, calculate_chunks returns a contiguous cover of [0, totalSize-1]
\* by ranges of size >= 1; it does not divide by zero (panic), does not
\* underflow a subtraction, and produces no range with end < start.
C6_DegenerateChunkCount ==
  (/\ CalcCalled
   /\ TotalSize >= 1
   /\ TotalSize >= config.min_chunk_size
   /\ (config.chunk_count \in {0, 1} \/ config.chunk_count > TotalSize))
    => /\ ret.status = "ok"
       /\ ~ret.wrapped
       /\ ContiguousCover(ret.chunks, TotalSize)

\* C7: when a file of length L is present, the ranges detect_resume returns
\* have downloaded counters that sum to min(L, totalSize).
C7_ResumeSum ==
  (ScanCalled /\ disk.exists /\ ret.status = "ok")
    => SumDownloaded(ret.chunks) = Min(Len(disk.data), TotalSize)

C7_Witness ==
  /\ ScanCalled /\ disk.exists /\ ret.status = "ok"
  /\ Len(disk.data) > 0 /\ Len(disk.data) < TotalSize
  /\ Len(ret.chunks) = 2
  /\ is_complete(ret.chunks[1])
  /\ ret.chunks[2].downloaded > 0 /\ ~is_complete(ret.chunks[2])

\* Prefix shape with the first incomplete range at position k (1-based);
\* k = Len(chunks) + 1 stands for "no incomplete range".
PrefixShapeAt(chunks, k) ==
  /\ \A j \in 1..Len(chunks) : j < k => chunks[j].downloaded = size(chunks[j])
  /\ k <= Len(chunks) => ULt(chunks[k].downloaded, size(chunks[k]))
  /\ \A j \in 1..Len(chunks) : j > k => chunks[j].downloaded = 0

\* C8 as stated: the ranges detect_resume returns have an index k with every
\* range before k complete, range k incomplete (0 <= downloaded < size) and
\* every range after k untouched.
C8_PrefixShapeSomeRange ==
  (ScanCalled /\ disk.exists /\ ret.status = "ok")
    => \E k \in 1..Len(ret.chunks) : PrefixShapeAt(ret.chunks, k)

\* C8 amended: either the file is at least totalSize long and every range is
\* complete, or there is such an index k.
C8_PrefixShape ==
  (ScanCalled /\ disk.exists /\ ret.status = "ok")
    => IF Len(disk.data) >= TotalSize
       THEN \A j \in 1..Len(ret.chunks) :
              ret.chunks[j].downloaded = size(ret.chunks[j])
       ELSE \E k \in 1..Len(ret.chunks) : PrefixShapeAt(ret.chunks, k)

C8_Witness ==
  /\ ScanCalled /\ disk.exists /\ ret.status = "ok"
  /\ Len(ret.chunks) = 3
  /\ ret.chunks[1].downloaded = size(ret.chunks[1])
  /\ ret.chunks[2].downloaded > 0 /\ ret.chunks[2].downloaded < size(ret.chunks[2])
  /\ ret.chunks[3].downloaded = 0

\* C10: with no file at the path and totalSize >= 1, detect_resume returns the ranges of
\* calculate_chunks, each with downloaded = 0 and not complete.
C10_NoFileFresh ==
  (ScanCalled /\ ~disk.exists /\ TotalSize >= 1 /\ ret.status = "ok")
    => /\ ret.chunks =
            calculate_chunks(config, overflow_checks, TotalSize).chunks
       /\ \A j \in 1..Len(ret.chunks) :
            ret.chunks[j].downloaded = 0 /\ ~is_complete(ret.chunks[j])

\* ======================================================================
\* Properties of download / download_resumable
\* ======================================================================
Returns == co.pc = "done"
ReturnsOk == co.pc = "done" /\ co.result.kind = "Ok"
RangedPath == co.probe = "ranges"
FreshPath == ~hist.start_disk.exists

FileIsResource == disk.exists /\ disk.data = Resource(TotalSize)

\* C1: on a path with no pre-existing file and a server that supports ranges
\* and answers each ranged GET with the requested bytes, whenever download or
\* download_resumable returns Ok the file has length totalSize and every byte
\* of it is the resource's byte, whatever the interleaving and the retries.
C1_OkMeansIdentical ==
  (ReturnsOk /\ RangedPath /\ FreshPath) => FileIsResource

C1_Witness ==
  /\ ReturnsOk /\ RangedPath /\ FreshPath
  /\ Len(tasks) >= 2
  /\ tasks[1].result.bytes >= 1
  /\ tasks[2].result.bytes >= 1
  /\ \E t \in 1..Len(tasks) : tasks[t].attempt >= 1
  /\ FileIsResource

\* C2: if download_resumable on a fresh path returned an error after writing
\* some but not all bytes, a following download_resumable on the same path
\* with no failures, once it returns Ok, leaves the file identical to the
\* resource.
C2_ResumeCompletes ==
  (/\ ReturnsOk /\ RangedPath
   /\ co.entry = "download_resumable"
   /\ ~hist.faulty
   /\ hist.prev.kind = "Err"
   /\ hist.prev.entry = "download_resumable"
   /\ hist.prev.fresh
   /\ hist.prev.written # {}
   /\ hist.prev.written # 0..(TotalSize - 1))
    => FileIsResource

\* offsets of range c written so far by this invocation's tasks
WrittenIn(c) == {o \in hist.written : c.start <= o /\ o <= c.end}

PrefixWritten(c) ==
  \E n \in 0..size(c) : WrittenIn(c) = c.start..(c.start + n - 1)

\* C3: at every state of the fan-out of one download on a fresh path, the
\* bytes written so far have the shape the resume scan assumes: some K with
\* ranges before K completely written, range K written on a contiguous
\* prefix at most, and no byte of a range after K written.
C3_WrittenPrefixShape ==
  (/\ RangedPath /\ FreshPath
   /\ Len(tasks) >= 1
   /\ \A j \in 1..Len(co.chunks) : SizeExact(co.chunks[j]))
    => \E K \in 1..Len(co.chunks) :
         /\ \A j \in 1..Len(co.chunks) :
              j < K => WrittenIn(co.chunks[j]) = co.chunks[j].start..co.chunks[j].end
         /\ PrefixWritten(co.chunks[K])
         /\ \A j \in 1..Len(co.chunks) : j > K => WrittenIn(co.chunks[j]) = {}

\* C9: when the file is already at least totalSize long (and the probe
\* reports range support), download_resumable has every range complete and
\* returns Ok(0) with no task spawned, no ranged GET issued and the file
\* untouched.
C9_CompleteFileNoWork ==
  (/\ Returns /\ RangedPath
   /\ co.entry = "download_resumable"
   /\ config.chunk_count >= 1
   /\ hist.start_disk.exists
   /\ Len(hist.start_disk.data) >= TotalSize)
    => /\ co.result = Ok(0)
       /\ \A j \in 1..Len(co.chunks) :
            is_complete(co.chunks[j]) /\ remaining(co.chunks[j]) = 0
       /\ tasks = <<>>
       /\ hist.requested = {}
       /\ disk = hist.start_disk

\* ======================================================================
\* Properties of download_chunk_with_retry and download_chunk
\* ======================================================================
TaskIds == 1..Len(tasks)

\* C11: download_chunk_with_retry makes at most max_retries + 1 attempts; a
\* successful attempt returns Ok at once, with no further attempt; when every
\* attempt has failed and the call is over, exactly max_retries + 1 attempts
\* were made and the call returned the error of the last attempt.
C11_RetryBound ==
  \A t \in TaskIds :
    /\ tasks[t].calls <= config.max_retries + 1
    /\ tasks[t].outcome = "Ok"
         => tasks[t].pc = "done" /\ tasks[t].result.kind = "Ok"
    /\ (tasks[t].pc = "done" /\ tasks[t].outcome # "Ok")
         => /\ tasks[t].calls = config.max_retries + 1
            /\ tasks[t].result = Err(tasks[t].outcome)

\* initialBackoff * 2^(k-1), or initialBackoff
ClaimedDelay(k) ==
  IF config.exponential_backoff THEN Scaled(config.retry_delay_ms, k - 1)
  ELSE Scaled(config.retry_delay_ms, 0)

\* C12: the sleep before the k-th retry lasts retry_delay_ms * 2^(k-1) in
\* exponential mode and retry_delay_ms in constant mode; there is one sleep
\* between two attempts, none before the first, and the call ends without a
\* sleep only after the final failed attempt (or a success).
C12_BackoffDelay ==
  \A t \in TaskIds :
    /\ tasks[t].pc = "sleep" => tasks[t].delay = ClaimedDelay(tasks[t].attempt)
    /\ tasks[t].pc = "sleep" => tasks[t].sleeps = tasks[t].calls
    /\ tasks[t].pc \in {"call", "stream"} => tasks[t].sleeps = tasks[t].attempt
    /\ tasks[t].calls = 0 => tasks[t].sleeps = 0
    /\ (tasks[t].pc = "done" /\ tasks[t].outcome # "Ok")
         => /\ tasks[t].attempt > config.max_retries
            /\ tasks[t].sleeps = tasks[t].calls - 1

\* C13: when an attempt that has written n > 0 bytes fails and a retry is
\* due, the chunk's downloaded counter is advanced by n: the next GET will
\* start at the previous start_byte + n.
C13_RetryKeepsProgress ==
  [][\A t \in TaskIds :
       (/\ Len(tasks') = Len(tasks)
        /\ tasks[t].pc = "stream"
        /\ tasks[t].bytes_written > 0
        /\ tasks'[t].pc = "sleep")
         => resume_position(tasks'[t].chunk)
              = tasks[t].start_byte + tasks[t].bytes_written]_vars

\* C14: whatever response the fetcher accepts, the offsets a task has written
\* in its current attempt (cursor - bytes_written .. cursor - 1) lie in
\* [resume_position, end] of its chunk.
C14_WritesInOwnRange ==
  \A t \in TaskIds :
    tasks[t].bytes_written > 0
      => /\ ULe(resume_position(tasks[t].chunk),
                tasks[t].cursor - tasks[t].bytes_written)
         /\ ULe(tasks[t].cursor - 1, tasks[t].chunk.end)

\* C15: a 200 answer to a ranged GET sent with resume_position > start makes
\* the attempt fail with UnexpectedFullResponse, nothing of its body written.
C15_RejectFullResponse ==
  \A t \in TaskIds :
    (tasks[t].status = 200 /\ ULt(tasks[t].chunk.start, tasks[t].start_byte))
      => /\ tasks[t].pc # "stream"
         /\ tasks[t].bytes_written = 0
         /\ tasks[t].outcome = "UnexpectedFullResponse"

\* ======================================================================
\* Properties of the coordinator
\* ======================================================================
\* C16: when download_resumable is about to spawn, or has spawned, a range
\* task, the destination file exists and is at least totalSize long.
C16_SizedBeforeSpawn ==
  (/\ co.entry = "download_resumable"
   /\ co.pc = "spawn" \/ Len(tasks) >= 1)
    => disk.exists /\ Len(disk.data) >= TotalSize

\* C17: as long as the probe has not returned successfully no task is
\* spawned and no GET is sent; a failed probe makes the call return the
\* probe's error.
C17_ProbeFirst ==
  /\ co.probe \in {"none", "failed"}
       => tasks = <<>> /\ hist.requested = {} /\ co.gets = 0
  /\ co.probe = "failed"
       => co.pc = "done" /\ co.result = Err(co.probe_error)

C17_Witness ==
  /\ co.probe = "failed"
  /\ co.result = Err("InvalidUrl")
  /\ hist.start_disk.exists
  /\ disk = hist.start_disk

\* C18: when the probe reports no range support, no task is spawned and no
\* ranged GET is sent, at most one non-ranged GET is sent, and when the call
\* returns Ok exactly one was sent, the file is exactly the response body
\* and the count returned is the body's length.
C18_NoRangesSingleGet ==
  co.probe = "no_ranges"
    => /\ tasks = <<>>
       /\ hist.requested = {}
       /\ co.gets <= 1
       /\ co.pc # "single_send" => co.gets = 1
       /\ ReturnsOk => /\ disk = FileOf(Resource(TotalSize))
                       /\ co.result = Ok(TotalSize)

C18_Witness ==
  /\ co.probe = "no_ranges"
  /\ ReturnsOk
  /\ co.entry = "download_resumable"
  /\ hist.start_disk.exists
  /\ Len(hist.start_disk.data) > TotalSize
  /\ disk = FileOf(Resource(TotalSize))

\* C19: with a server that answers each ranged GET with the requested bytes,
\* when download_resumable returns Ok(n) on the ranged path, n is the sum of
\* remaining() over the ranges of the resume scan: totalSize on a fresh path,
\* at most totalSize minus the length of a partial file; no offset below that
\* length is requested.
C19_ReturnedCount ==
  (ReturnsOk /\ RangedPath /\ co.entry = "download_resumable")
    => LET scan == detect_resume(config, overflow_checks, hist.start_disk, TotalSize)
           n    == co.result.bytes
           had  == Len(hist.start_disk.data)
       IN  /\ scan.status = "ok"
           /\ n = SumRemaining(scan.chunks)
           /\ FreshPath => n = TotalSize
           /\ (hist.start_disk.exists /\ had < TotalSize)
                => /\ n <= TotalSize - had
                   /\ hist.requested \cap (0..(had - 1)) = {}

C19_Witness ==
  /\ ReturnsOk /\ RangedPath /\ co.entry = "download_resumable"
  /\ hist.start_disk.exists
  /\ Len(hist.start_disk.data) >= 1
  /\ Len(hist.start_disk.data) < TotalSize
  /\ co.result.bytes >= 1
  /\ \E t \in TaskIds : tasks[t].attempt >= 1

FailedTasks == {t \in TaskIds : tasks[t].pc = "done" /\ tasks[t].result.kind = "Err"}

\* C20: once download or download_resumable has returned on the ranged path
\* and some range task has ended with an error, the call has returned Err,
\* with the error of the failed task of smallest index, unchanged.
C20_FirstFailure ==
  (Returns /\ RangedPath /\ FailedTasks # {})
    => \E t \in FailedTasks :
         /\ \A u \in FailedTasks : t <= u
         /\ co.result = tasks[t].result

C20_Witness ==
  /\ Returns /\ RangedPath
  /\ Len(tasks) = 2
  /\ FailedTasks = {1, 2}
  /\ config.max_retries >= 1
  /\ tasks[1].attempt = config.max_retries + 1
  /\ tasks[2].attempt = config.max_retries + 1
  /\ tasks[1].result = Err("NetworkError")
  /\ tasks[2].result = Err("FileError")
  /\ co.result = Err("NetworkError")

\* C21: whenever download or download_resumable has returned, with Ok or with
\* Err, every range task it spawned has ended, so that nothing is written on
\* its behalf after the return.
C21_TasksEndedAtReturn ==
  Returns => AllTasksDone

\* what one attempt of download_chunk that meets no failure leaves in a file
\* of totalSize zero bytes: the resource's bytes from the resume position to
\* the end of the range
CleanAttempt(c) ==
  WriteAt(Zeros(TotalSize), resume_position(c),
          RangeBody(resume_position(c), c.end))

\* C22: when a range task's first attempt fails (with a network error after
\* it wrote n bytes, 0 <= n < remaining, or with any other failure) and its
\* next attempt succeeds, the file holds in the range what a single attempt
\* without failure would have left, download_chunk was called exactly twice,
\* and exactly one sleep, of retry_delay_ms, was taken between the two calls.
C22_OneRetryIsClean ==
  \A t \in TaskIds :
    (/\ tasks[t].pc = "done"
     /\ tasks[t].result.kind = "Ok"
     /\ tasks[t].attempt = 1)
      => /\ disk.data = CleanAttempt(tasks[t].chunk)
         /\ tasks[t].result = Ok(remaining(tasks[t].chunk))
         /\ tasks[t].calls = 2
         /\ tasks[t].gets = 2
         /\ tasks[t].sleeps = 1
         /\ tasks[t].delay = Scaled(config.retry_delay_ms, 0)

C22_Witness ==
  /\ tasks[1].pc = "done"
  /\ tasks[1].result = Ok(RetryFileSize)
  /\ tasks[1].attempt = 1
  /\ 1 \in hist.torn
  /\ config.retry_delay_ms = 3
  /\ config.exponential_backoff

\* the task whose handle made the join loop return
Joining == co.joined + 1

\* C23: when the task the join loop awaits has died without a result (it
\* panicked), the call returns an error of kind Internal, not NetworkError,
\* HttpError or FileError.
C23_DeadTaskIsInternal ==
  (/\ Returns /\ RangedPath
   /\ Joining <= Len(tasks)
   /\ tasks[Joining].result.kind = "Panic")
    => co.result = Err("Internal")

\* C24: when the probe is answered 2xx without a content length, the call
\* returns MissingContentLength (not InvalidUrl), and no range is computed,
\* no file is created or changed and no GET is sent.
C24_MissingContentLength ==
  co.probe_cause = "no_content_length"
    => /\ Returns
       /\ co.result = Err("MissingContentLength")
       /\ co.chunks = <<>>
       /\ tasks = <<>>
       /\ hist.requested = {}
       /\ co.gets = 0
       /\ disk = hist.start_disk

SinglePath == co.entry = "http_download" \/ co.probe = "no_ranges"

\* C25: on the single-stream path (download_single, HttpDownloader::download)
\* exactly one GET is sent and none is sent again after a failure; a response
\* whose status is not 2xx makes the call return HttpError with that very
\* status (404 for 404); a failure of the network or of the file is returned
\* from that one attempt.
C25_SingleAttempt ==
  SinglePath
    => /\ tasks = <<>>
       /\ hist.requested = {}
       /\ co.gets <= 1
       /\ Returns
            => /\ co.gets = 1
               /\ hist.faulty <=> co.result.kind = "Err"
               /\ co.status \in ErrorStatuses
                    <=> co.result = Err("HttpError")
               /\ co.result = Err("HttpError") => co.error_code = co.status

C25_Witness ==
  /\ co.entry = "http_download"
  /\ Returns
  /\ co.gets = 1
  /\ co.result = Err("HttpError")
  /\ co.status = 404
  /\ co.error_code = 404
  /\ disk = hist.start_disk

\* C27: the exponent of the backoff is capped, so that retry_delay_ms * 2^exp
\* is computed without overflow of u64 whatever max_retries is: no task dies
\* computing its delay and no delay slept is a wrapped value.
C27_BackoffNeverOverflows ==
  \A t \in TaskIds :
    /\ tasks[t].result.kind # "Panic"
    /\ tasks[t].pc = "sleep"
         => BackoffDelay(config, overflow_checks, tasks[t].attempt).status = "ok"

\* every range task has ended as Succeeded or Failed within its retry budget
TasksSettled ==
  \A t \in TaskIds :
    /\ tasks[t].pc = "done"
    /\ tasks[t].result.kind \in {"Ok", "Err"}
    /\ tasks[t].calls <= config.max_retries + 1
    /\ tasks[t].sleeps <= config.max_retries

\* C26: when every request ends and the scheduler is fair, every range task
\* eventually ends as Succeeded or Failed, after at most max_retries + 1
\* attempts and at most max_retries sleeps, and the invocation eventually
\* returns.
C26_EventuallySettled ==
  <>[](Returns /\ TasksSettled)

\* the ranges of the running invocation: those the coordinator holds and the
\* copies its tasks hold
LiveChunks ==
  {co.chunks[j] : j \in 1..Len(co.chunks)} \cup {tasks[t].chunk : t \in TaskIds}

\* start <= end with a size that is a u64, 0 <= downloaded <= size,
\* remaining() does not underflow, is_complete() exactly when downloaded is
\* the size, start + downloaded <= end + 1
RangeInvariant(c) ==
  /\ ULe(c.start, c.end)
  /\ SizeExact(c)
  /\ ULe(c.downloaded, size(c))
  /\ ~SubUnderflows(size(c), c.downloaded)
  /\ is_complete(c) <=> c.downloaded = size(c)
  /\ ~AddOverflows(c.start, c.downloaded)
  /\ ULe(c.start + c.downloaded - 1, c.end) \/ c.downloaded = 0

\* C28: every range calculate_chunks or detect_resume produced (totalSize
\* >= 1) satisfies, in every state of the download, start <= end,
\* 0 <= downloaded <= size = end - start + 1, is_complete() exactly when
\* downloaded = size, resume_position() <= end + 1; the copy a task holds has
\* the index, start and end of the range it was spawned for.
C28_RangeInvariants ==
  /\ \A c \in LiveChunks : RangeInvariant(c)
  /\ \A t \in TaskIds :
       \E j \in 1..Len(co.chunks) :
         /\ co.chunks[j].index = tasks[t].chunk.index
         /\ co.chunks[j].start = tasks[t].chunk.start
         /\ co.chunks[j].end = tasks[t].chunk.end

Incomplete(c) == ~is_complete(c)

\* the ranges the spawn loop has gone through
Visited == SubSeq(co.chunks, 1, co.next - 1)

\* C29: download_resumable spawns one task for each range the resume scan
\* reports incomplete, in order, and none for a complete range; no two tasks
\* hold the same range; a task requests and writes nothing before it has
\* opened its own handle on the file.
C29_OneTaskPerIncompleteRange ==
  (co.entry = "download_resumable" /\ RangedPath)
    => /\ [t \in 1..Len(tasks) |-> tasks[t].chunk] = SelectSeq(Visited, Incomplete)
       /\ co.pc = "join" => co.next = Len(co.chunks) + 1
       /\ \A t, u \in TaskIds :
            tasks[t].chunk.index = tasks[u].chunk.index => t = u
       /\ \A t \in TaskIds :
            tasks[t].pc = "open"
              => /\ tasks[t].calls = 0
                 /\ tasks[t].gets = 0
                 /\ tasks[t].cursor = 0

C29_Witness ==
  /\ co.entry = "download_resumable" /\ RangedPath
  /\ co.pc = "join"
  /\ Len(co.chunks) = 2
  /\ co.chunks[1].downloaded >= 1
  /\ is_complete(co.chunks[1])
  /\ ~is_complete(co.chunks[2])
  /\ Len(tasks) = 1
  /\ tasks[1].chunk = co.chunks[2]
  /\ tasks[1].pc = "stream"

\* C30: while the probe is pending and after it has failed, the file system
\* is as the invocation found it: a missing file has not been created, an
\* existing file has not been truncated, resized or written to.
C30_FailedProbeTouchesNothing ==
  (co.pc = "probe" \/ co.probe = "failed")
    => /\ disk = hist.start_disk
       /\ hist.written = {}

C30_Witness ==
  /\ co.probe = "failed"
  /\ Returns
  /\ co.entry = "download"
  /\ co.result = Err("NetworkError")
  /\ hist.start_disk.exists
  /\ Len(hist.start_disk.data) >= 1
  /\ disk = hist.start_disk

\* download has gone past File::create and set_len on the ranged path
Presized ==
  /\ co.entry = "download" /\ RangedPath
  /\ co.pc \in {"spawn", "join"} \/ tasks # <<>>

\* C31: download reuses no prior progress.  On the ranged path, unless a
\* failure makes it return, it truncates the file at the path to empty, sizes
\* it to totalSize, and spawns one task for every range, each with
\* downloaded = 0 and each requesting bytes=start-end; download_resumable on
\* the ranged path never makes an existing file shorter.
C31_DownloadStartsOver ==
  /\ (co.entry = "download" /\ RangedPath)
       => /\ (Returns /\ ~hist.faulty)
               => /\ disk.exists /\ Len(disk.data) = TotalSize
                  /\ Len(tasks) = Len(co.chunks)
          /\ co.pc = "set_len" => disk = FileOf(<<>>)
          /\ Presized => disk.exists /\ Len(disk.data) = TotalSize
          /\ co.pc = "join" => Len(tasks) = Len(co.chunks)
          /\ \A t \in TaskIds :
               /\ tasks[t].chunk = co.chunks[t]
               /\ tasks[t].chunk.downloaded = 0
               /\ tasks[t].calls >= 1 => tasks[t].gets >= 1
               /\ tasks[t].pc = "stream"
                    => /\ tasks[t].start_byte = tasks[t].chunk.start
                       /\ tasks[t].body
                            = SubSeq(RangeBody(tasks[t].chunk.start, tasks[t].chunk.end),
                                     tasks[t].bytes_written + 1,
                                     size(tasks[t].chunk))
  /\ (co.entry = "download_resumable" /\ RangedPath /\ hist.start_disk.exists)
       => disk.exists /\ Len(disk.data) >= Len(hist.start_disk.data)

====
